---------------------------- MODULE Spec2Model ----------------------------
(***************************************************************************)
(* A model of autonomous_formatter.py: the numeric formatter f, the        *)
(* identifier derivation camel_case, the converter convert (a path         *)
(* document to the source text of a path-following state machine), the     *)
(* form handler generate_code, and the state machine of the emitted text.  *)
(*                                                                         *)
(* Text is a sequence of one-character strings.  A JSON number is a count  *)
(* of ten-thousandths (85.7 is 857000) with a flag telling on which side   *)
(* of the decimal literal the binary double lies, which is what decides a  *)
(* decimal tie in Python's correctly rounded "%.3f".  A JSON object is a   *)
(* function from its keys, so that d["k"] and d.get("k", default) are      *)
(* modelled by their domain test.  The emitted text is kept structured:    *)
(* one record per pose declaration, per construction statement and per     *)
(* switch case, holding the substituted parts of the template.  The class  *)
(* name, which the template takes verbatim, is left out.                   *)
(***************************************************************************)
EXTENDS Integers, Sequences, FiniteSets, TLC

(***************************************************************************)
(* Bounds of the model.                                                    *)
(***************************************************************************)
MaxWhole == 12

MaxNameLen == 4

MaxSegs == 2

MaxRunSegs == 4

(***************************************************************************)
(* Characters and text.                                                    *)
(***************************************************************************)
DigitChars == <<"0", "1", "2", "3", "4", "5", "6", "7", "8", "9">>

\* The separator class [_\s] of camel_case's regular expression.
IsSep(c) == c \in {"_", " "}

\* str.lower() on one character.
LowerChar(c) ==
    CASE c = "A" -> "a"
      [] c = "B" -> "b"
      [] c = "G" -> "g"
      [] c = "O" -> "o"
      [] OTHER -> c

\* str.upper() on one character.
UpperChar(c) ==
    CASE c = "a" -> "A"
      [] c = "b" -> "B"
      [] c = "g" -> "G"
      [] c = "o" -> "O"
      [] OTHER -> c

\* str.lower()
Lower(s) == [i \in 1..Len(s) |-> LowerChar(s[i])]

\* parts[0].lower() of camel_case
LowerFirstPart(s) == Lower(s)

UpperFirstKeepRest(s) == [i \in 1..Len(s) |-> IF i = 1 THEN UpperChar(s[i]) ELSE s[i]]

\* str.capitalize(): the first character upper-cased, the rest lower-cased.
Capitalize(s) == [i \in 1..Len(s) |-> IF i = 1 THEN UpperChar(s[i]) ELSE LowerChar(s[i])]

RECURSIVE RStrip(_, _)
\* str.rstrip(c) for a one-character c.
RStrip(s, c) ==
    IF Len(s) > 0 /\ s[Len(s)] = c THEN RStrip(SubSeq(s, 1, Len(s) - 1), c) ELSE s

RECURSIVE Digits(_)
\* The decimal digits of a natural number, without leading zeros ("0" for 0).
Digits(k) ==
    IF k < 10 THEN <<DigitChars[k + 1]>>
    ELSE Digits(k \div 10) \o <<DigitChars[(k % 10) + 1]>>

\* Three digits, zero padded: the fractional part of "%.3f".
Pad3(k) ==
    <<DigitChars[(k \div 100) + 1], DigitChars[((k \div 10) % 10) + 1], DigitChars[(k % 10) + 1]>>

(***************************************************************************)
(* JSON values.                                                            *)
(***************************************************************************)
NumV(n, up) == [kind |-> "num", n |-> n, up |-> up, s |-> <<>>]

StrV(s) == [kind |-> "str", n |-> 0, up |-> FALSE, s |-> s]

Abs(n) == IF n < 0 THEN -n ELSE n

TruncThousandths(v) == Abs(v.n) \div 10

\* The rounding of "%.3f": the thousandths nearest to the double.  A decimal
\* tie is exact in binary only for a multiple of 1/16 (625 ten-thousandths),
\* and is then rounded half to even; any other tie falls to the side of the
\* literal the double lies on.
RoundThousandths(v) ==
    LET a == Abs(v.n)
        q == a \div 10
        r == a % 10
    IN  IF r < 5 THEN q
        ELSE IF r > 5 THEN q + 1
        ELSE IF a % 625 = 0 THEN (IF q % 2 = 0 THEN q ELSE q + 1)
        ELSE IF v.up THEN q + 1 ELSE q

\* f"{v:.3f}": sign, integer digits, a point, three fractional digits.
Format3f(v) ==
    LET t == RoundThousandths(v)
    IN  (IF v.n < 0 THEN <<"-">> ELSE <<>>) \o Digits(t \div 1000) \o <<".">> \o Pad3(t % 1000)

fNoStrip(v) == IF v.kind = "num" THEN RStrip(Format3f(v), "0") ELSE v.s

\* f(v)
f(v) ==
    IF v.kind = "num" THEN RStrip(RStrip(Format3f(v), "0"), ".") ELSE v.s

(***************************************************************************)
(* camel_case.                                                             *)
(***************************************************************************)
RECURSIVE ReSplitFrom(_, _, _)
\* re.split(r'[_\s]+', s) from position i on, cur being the part collected so
\* far: a maximal run of separators ends the part, and the text after the last
\* run (empty when s ends in a separator) is the last part.
ReSplitFrom(s, i, cur) ==
    IF i > Len(s) THEN <<cur>>
    ELSE IF IsSep(s[i])
         THEN IF i > 1 /\ IsSep(s[i - 1])
              THEN ReSplitFrom(s, i + 1, cur)
              ELSE <<cur>> \o ReSplitFrom(s, i + 1, <<>>)
         ELSE ReSplitFrom(s, i + 1, Append(cur, s[i]))

\* re.split(r'[_\s]+', s)
ReSplit(s) == ReSplitFrom(s, 1, <<>>)

RECURSIVE JoinCapitalized(_, _)
\* "".join(p.capitalize() for p in parts[i:])
JoinCapitalized(parts, i) ==
    IF i > Len(parts) THEN <<>>
    ELSE Capitalize(parts[i]) \o JoinCapitalized(parts, i + 1)

\* camel_case(s)
camel_case(s) ==
    LET parts == ReSplit(s)
    IN  LowerFirstPart(parts[1]) \o JoinCapitalized(parts, 2)


(***************************************************************************)
(* Identifiers of the emitted text.                                        *)
(***************************************************************************)
\* start_pose_name = "startPose"
start_pose_name == <<"s", "t", "a", "r", "t", "P", "o", "s", "e">>

PoseSuffix == <<"P", "o", "s", "e">>

PathSuffix == <<"P", "a", "t", "h">>

(***************************************************************************)
(* JSON objects: dict access.                                              *)
(***************************************************************************)
Has(d, k) == k \in DOMAIN d

\* d.get(k, default)
Get(d, k, default) == IF Has(d, k) THEN d[k] ELSE default

Restrict(d, keys) == [k \in keys |-> d[k]]

(***************************************************************************)
(* The state.                                                              *)
(***************************************************************************)
VARIABLES
    json_path,        \* entry_json_path: "" until a file is selected
    file,             \* the document json.load reads from json_path
    pc,               \* the position of generate_code and of convert in it
    i,                \* the number of lines the running loop of convert has done
    start_pose_line,  \* convert's locals
    poses,
    path_names,
    build_lines,
    prev_pose,
    update_lines,
    ret,              \* convert's return value: <<>> or <<code>>
    exc,              \* the exception convert raised, "" for none
    text_output,      \* the preview widget's text: <<>> or <<code>>
    dialog,           \* the message box shown, "" for none
    runPc,            \* the emitted runOpMode: "init", "loop", "stopped"
    pathState,        \* the emitted class's pathState field
    pathTimer,        \* the number of pathTimer.resetTimer() calls
    followed          \* the paths handed to follower.followPath, in order

locals == <<i, start_pose_line, poses, path_names, build_lines, prev_pose, update_lines>>

form == <<text_output, dialog>>

robot == <<runPc, pathState, pathTimer, followed>>

vars == <<json_path, file, pc, locals, ret, exc, form, robot>>

lines == file.lines

(***************************************************************************)
(* convert, one loop iteration at a time.                                  *)
(***************************************************************************)
\* A failed d["k"]: the exception leaves convert, its locals are dropped.
Raise(e) ==
    /\ pc' = "raised"
    /\ exc' = e
    /\ i' = 0
    /\ start_pose_line' = <<>>
    /\ poses' = <<>>
    /\ path_names' = <<>>
    /\ build_lines' = <<>>
    /\ prev_pose' = <<>>
    /\ update_lines' = <<>>
    /\ UNCHANGED <<json_path, file, ret, form, robot>>

\* ep.get("endDeg", 0) alone
DegOfEndDegOnly(ep) == Get(ep, "endDeg", NumV(0, FALSE))

\* deg = ep.get("degrees", ep.get("endDeg", 0))
DegOf(ep) == Get(ep, "degrees", Get(ep, "endDeg", NumV(0, FALSE)))

\* The pose declaration of one line.
PoseLine(line) ==
    [name    |-> camel_case(line.name) \o PoseSuffix,
     x       |-> f(line.endPoint["x"]),
     y       |-> f(line.endPoint["y"]),
     heading |-> f(DegOf(line.endPoint)),
     comment |-> line.name]

\* The construction statement that always chains from the start pose.
BuildLineFromStart(line, prev) ==
    LET name == camel_case(line.name)
        end_pose == name \o PoseSuffix
        control_points == line.controlPoints
    IN  [path    |-> name \o PathSuffix,
         shape   |-> IF Len(control_points) = 0 THEN "BezierLine" ELSE "BezierCurve",
         start   |-> start_pose_name,
         control |-> IF Len(control_points) = 0 THEN <<>>
                     ELSE <<f(control_points[1]["x"]), f(control_points[1]["y"])>>,
         end     |-> end_pose,
         interp  |-> IF Get(line.endPoint, "heading", "linear") = "constant"
                     THEN "setConstantHeadingInterpolation"
                     ELSE "setLinearHeadingInterpolation",
         args    |-> IF Get(line.endPoint, "heading", "linear") = "constant"
                     THEN <<end_pose>>
                     ELSE <<start_pose_name, end_pose>>]

\* The construction statement that reads a missing heading as "constant".
BuildLineDefaultConstant(line, prev) ==
    LET name == camel_case(line.name)
        end_pose == name \o PoseSuffix
        control_points == line.controlPoints
    IN  [path    |-> name \o PathSuffix,
         shape   |-> IF Len(control_points) = 0 THEN "BezierLine" ELSE "BezierCurve",
         start   |-> prev,
         control |-> IF Len(control_points) = 0 THEN <<>>
                     ELSE <<f(control_points[1]["x"]), f(control_points[1]["y"])>>,
         end     |-> end_pose,
         interp  |-> IF Get(line.endPoint, "heading", "constant") = "constant"
                     THEN "setConstantHeadingInterpolation"
                     ELSE "setLinearHeadingInterpolation",
         args    |-> IF Get(line.endPoint, "heading", "constant") = "constant"
                     THEN <<end_pose>>
                     ELSE <<prev, end_pose>>]

\* The construction statement of one line, chained from pose prev.
BuildLine(line, prev) ==
    LET name == camel_case(line.name)
        end_pose == name \o PoseSuffix
        heading == Get(line.endPoint, "heading", "linear")
        control_points == line.controlPoints
    IN  [path    |-> name \o PathSuffix,
         shape   |-> IF Len(control_points) = 0 THEN "BezierLine" ELSE "BezierCurve",
         start   |-> prev,
         control |-> IF Len(control_points) = 0 THEN <<>>
                     ELSE <<f(control_points[1]["x"]), f(control_points[1]["y"])>>,
         end     |-> end_pose,
         interp  |-> IF heading = "constant"
                     THEN "setConstantHeadingInterpolation"
                     ELSE "setLinearHeadingInterpolation",
         args    |-> IF heading = "constant"
                     THEN <<end_pose>>
                     ELSE <<prev, end_pose>>]

\* A switch case that starts its path whatever the follower reports.
UpdateLineUnguarded(k, line) ==
    [label |-> k, kind |-> "first",
     follow |-> camel_case(line.name) \o PathSuffix, next |-> k + 1]

\* The switch case of line number k (from 0).
UpdateLine(k, line) ==
    [label  |-> k,
     kind   |-> IF k = 0 THEN "first" ELSE "wait",
     follow |-> camel_case(line.name) \o PathSuffix,
     next   |-> k + 1]

FinalStateOffByOne(n) == [label |-> n + 1, kind |-> "done", follow |-> <<>>, next |-> n + 1]

\* The final do-nothing case.
FinalState(n) == [label |-> n, kind |-> "done", follow |-> <<>>, next |-> n]

\* generate_code up to its call of convert.
GenerateCode ==
    /\ pc = "idle"
    /\ IF json_path = ""
       THEN /\ pc' = "done"
            /\ dialog' = "Error: Please select a .pp file first."
       ELSE /\ pc' = "convert"
            /\ dialog' = dialog
    /\ UNCHANGED <<json_path, file, locals, ret, exc, text_output, robot>>

\* convert: start, lines and the start pose declaration.
ConvertStartPose ==
    /\ pc = "convert"
    /\ LET start == file.startPoint
       IN  IF Has(start, "x") /\ Has(start, "y")
           THEN /\ start_pose_line' =
                      <<[name    |-> start_pose_name,
                         x       |-> f(start["x"]),
                         y       |-> f(start["y"]),
                         heading |-> f(Get(start, "startDeg", NumV(0, FALSE))),
                         comment |-> <<>>]>>
                /\ poses' = <<>>
                /\ i' = 0
                /\ pc' = "poses"
                /\ UNCHANGED <<json_path, file, path_names, build_lines, prev_pose,
                               update_lines, ret, exc, form, robot>>
           ELSE Raise("KeyError")

\* One iteration of "for line in lines" that generates the poses.
PoseStep ==
    /\ pc = "poses"
    /\ i < Len(lines)
    /\ LET line == lines[i + 1]
       IN  IF Has(line.endPoint, "x") /\ Has(line.endPoint, "y")
           THEN /\ poses' = Append(poses, PoseLine(line))
                /\ i' = i + 1
                /\ UNCHANGED <<json_path, file, pc, start_pose_line, path_names,
                               build_lines, prev_pose, update_lines, ret, exc, form, robot>>
           ELSE Raise("KeyError")

\* The end of the pose loop: path_names, build_lines = [], prev_pose.
PathNames ==
    /\ pc = "poses"
    /\ i = Len(lines)
    /\ path_names' = [k \in 1..Len(lines) |-> camel_case(lines[k].name) \o PathSuffix]
    /\ build_lines' = <<>>
    /\ prev_pose' = start_pose_name
    /\ i' = 0
    /\ pc' = "build"
    /\ UNCHANGED <<json_path, file, start_pose_line, poses, update_lines, ret, exc,
                   form, robot>>

\* One iteration of "for line in lines" that builds the paths.
BuildStep ==
    /\ pc = "build"
    /\ i < Len(lines)
    /\ LET line == lines[i + 1]
           control_points == line.controlPoints
       IN  IF Len(control_points) = 0
              \/ (Has(control_points[1], "x") /\ Has(control_points[1], "y"))
           THEN /\ build_lines' = Append(build_lines, BuildLine(line, prev_pose))
                /\ prev_pose' = camel_case(line.name) \o PoseSuffix
                /\ i' = i + 1
                /\ UNCHANGED <<json_path, file, pc, start_pose_line, poses, path_names,
                               update_lines, ret, exc, form, robot>>
           ELSE Raise("KeyError")

\* The end of the build loop: update_lines = [].
UpdateInit ==
    /\ pc = "build"
    /\ i = Len(lines)
    /\ update_lines' = <<>>
    /\ i' = 0
    /\ pc' = "update"
    /\ UNCHANGED <<json_path, file, start_pose_line, poses, path_names, build_lines,
                   prev_pose, ret, exc, form, robot>>

\* One iteration of "for i, line in enumerate(lines)".
UpdateStep ==
    /\ pc = "update"
    /\ i < Len(lines)
    /\ update_lines' = Append(update_lines, UpdateLine(i, lines[i + 1]))
    /\ i' = i + 1
    /\ UNCHANGED <<json_path, file, pc, start_pose_line, poses, path_names, build_lines,
                   prev_pose, ret, exc, form, robot>>

\* The end of the update loop: the final case, the assembled code, return.
Assemble ==
    /\ pc = "update"
    /\ i = Len(lines)
    /\ update_lines' = Append(update_lines, FinalState(Len(lines)))
    /\ ret' = <<[start_pose_line      |-> start_pose_line[1],
                 poses                |-> poses,
                 path_vars            |-> path_names,
                 build_lines          |-> build_lines,
                 update_state_machine |-> update_lines']>>
    /\ pc' = "returned"
    /\ UNCHANGED <<json_path, file, i, start_pose_line, poses, path_names, build_lines,
                   prev_pose, exc, form, robot>>

\* generate_code after convert returned: the preview and the success box.
ShowCode ==
    /\ pc = "returned"
    /\ text_output' = ret
    /\ dialog' = "Success"
    /\ pc' = "done"
    /\ UNCHANGED <<json_path, file, locals, ret, exc, robot>>

\* generate_code's except clause.
ShowError ==
    /\ pc = "raised"
    /\ dialog' = "Error: Failed to generate code"
    /\ pc' = "done"
    /\ UNCHANGED <<json_path, file, locals, ret, exc, text_output, robot>>

(***************************************************************************)
(* The emitted class: play, update, autonomousPathUpdate, setPathState.    *)
(***************************************************************************)
\* play(), once the generated text exists.
Play ==
    /\ pc = "done"
    /\ text_output # <<>>
    /\ runPc = "init"
    /\ pathState' = 0
    /\ pathTimer' = pathTimer + 1
    /\ runPc' = "loop"
    /\ UNCHANGED <<json_path, file, pc, locals, ret, exc, form, followed>>

\* One update() of the loop, the follower reporting busy or not.
Update(busy) ==
    /\ runPc = "loop"
    /\ LET cases == text_output[1].update_state_machine
           hit == {k \in 1..Len(cases) : cases[k].label = pathState}
       IN  IF hit = {}
           THEN UNCHANGED <<pathState, pathTimer, followed>>
           ELSE LET c == cases[CHOOSE k \in hit : \A m \in hit : k <= m]
                IN  IF c.kind = "first" \/ (c.kind = "wait" /\ ~busy)
                    THEN /\ followed' = Append(followed, c.follow)
                         /\ pathState' = c.next
                         /\ pathTimer' = pathTimer + 1
                    ELSE UNCHANGED <<pathState, pathTimer, followed>>
    /\ UNCHANGED <<json_path, file, pc, locals, ret, exc, form, runPc>>

\* opModeIsActive() turns false.
Stop ==
    /\ runPc = "loop"
    /\ runPc' = "stopped"
    /\ UNCHANGED <<json_path, file, pc, locals, ret, exc, form, pathState, pathTimer,
                   followed>>

(***************************************************************************)
(* The documents the form is given.                                        *)
(***************************************************************************)
\* Text of at most n characters over alphabet A.
TextUpTo(A, n) == UNION {[1..m -> A] : m \in 0..n}

\* Segment names: every text of at most MaxNameLen characters with lower and
\* upper case letters, a digit and both kinds of separator.
Names == TextUpTo({"a", "B", "1", "_", " "}, MaxNameLen)

\* Fractions, in ten-thousandths: none, one to four digits, decimal ties
\* (exact in binary: 625 and 1875; inexact: 5, 3455, 9995), and carries.
Fractions == {0, 7000, 3450, 3456, 3454, 5, 4, 625, 1875, 3455, 9995, 9999}

\* Numbers: sign, whole part of at most MaxWhole (plus 85, 90 and 99), fraction,
\* and the side of a tie the double lies on.
Numbers ==
    {NumV(sg * (w * 10000 + fr), up) :
        sg \in {1, -1}, w \in (0..MaxWhole) \cup {85, 90, 99}, fr \in Fractions,
        up \in BOOLEAN}

Num(n) == NumV(n, FALSE)

NameAB == <<"a", "_", "B">>

NameGo == <<"g", "o">>

StartFull == [x |-> Num(0), y |-> Num(-35000), startDeg |-> Num(900000)]

EndPointFull ==
    [x |-> Num(857000), y |-> Num(123456), degrees |-> Num(900000),
     endDeg |-> Num(-1800000), heading |-> "constant"]

ControlFull == [x |-> Num(123450), y |-> Num(99995)]

ControlSecond == [x |-> Num(480000), y |-> Num(625)]

Seg(name, endPoint, controlPoints) ==
    [name |-> name, endPoint |-> endPoint, controlPoints |-> controlPoints]

PlainSeg(name) == Seg(name, Restrict(EndPointFull, {"x", "y", "degrees"}), <<>>)

\* Every heading mode with every shape.
ShapeSegs ==
    {Seg(NameAB, ep, cps) :
        ep \in {Restrict(EndPointFull, {"x", "y", "degrees"})}
               \cup {[Restrict(EndPointFull, {"x", "y", "degrees", "heading"})
                        EXCEPT !["heading"] = h] : h \in {"constant", "linear", "tangential"}},
        cps \in {<<>>, <<ControlFull>>, <<ControlFull, ControlSecond>>}}

\* Empty, blank and one-token names.
NameSegs == {PlainSeg(n) : n \in {<<>>, <<" ">>, NameGo}}

\* The end heading given as degrees, as endDeg, as both, as neither.
HeadingSegs ==
    {Seg(NameGo, Restrict(EndPointFull, {"x", "y"} \cup ks), <<>>) :
        ks \in {{}, {"endDeg"}, {"degrees", "endDeg"}}}

\* A Point without x or y: an end point, a first and a second control point.
BrokenSegs ==
    {Seg(NameGo, Restrict(EndPointFull, ks), <<>>) : ks \in {{"x", "degrees"}, {"y", "degrees"}}}
    \cup {Seg(NameGo, Restrict(EndPointFull, {"x", "y", "degrees"}), cps) :
            cps \in {<<Restrict(ControlFull, {"x"})>>,
                     <<Restrict(ControlFull, {"y"})>>,
                     <<ControlFull, Restrict(ControlSecond, {"y"})>>}}

Segments == ShapeSegs \cup NameSegs \cup HeadingSegs \cup BrokenSegs

SeqUpTo(S, n) == UNION {[1..m -> S] : m \in 0..n}

Starts ==
    {StartFull, Restrict(StartFull, {"x", "y"}), Restrict(StartFull, {"y", "startDeg"}),
     Restrict(StartFull, {"x", "startDeg"})}

Doc(startPoint, ls) == [startPoint |-> startPoint, lines |-> ls]

\* Up to MaxSegs segments of every kind, after every kind of start point.
SegmentDocs == {Doc(st, ls) : st \in Starts, ls \in SeqUpTo(Segments, MaxSegs)}

\* Every number, and a value given as a JSON string, as the start point's
\* coordinates and heading.
NumberDocs ==
    {Doc([x |-> v, y |-> v, startDeg |-> v], <<PlainSeg(NameGo)>>) :
        v \in Numbers \cup {StrV(<<"1", ".", "5", "0">>)}}

\* Every name, as the name of a single segment.
NameDocs == {Doc(StartFull, <<PlainSeg(n)>>) : n \in Names}

\* Longer paths of plain segments, for the run of the emitted state machine.
RunDocs == {Doc(StartFull, ls) : ls \in SeqUpTo({PlainSeg(NameAB), PlainSeg(NameGo)}, MaxRunSegs)}

Docs == SegmentDocs \cup NumberDocs \cup NameDocs \cup RunDocs

NoDoc == Doc(StartFull, <<>>)

(***************************************************************************)
(* The specification.                                                      *)
(***************************************************************************)
Init ==
    /\ \/ json_path = "" /\ file = NoDoc
       \/ json_path = "auto.pp" /\ file \in Docs
    /\ pc = "idle"
    /\ i = 0
    /\ start_pose_line = <<>>
    /\ poses = <<>>
    /\ path_names = <<>>
    /\ build_lines = <<>>
    /\ prev_pose = <<>>
    /\ update_lines = <<>>
    /\ ret = <<>>
    /\ exc = ""
    /\ text_output = <<>>
    /\ dialog = ""
    /\ runPc = "init"
    /\ pathState = 0
    /\ pathTimer = 0
    /\ followed = <<>>

Next ==
    \/ GenerateCode
    \/ ConvertStartPose
    \/ PoseStep
    \/ PathNames
    \/ BuildStep
    \/ UpdateInit
    \/ UpdateStep
    \/ Assemble
    \/ ShowCode
    \/ ShowError
    \/ Play
    \/ \E busy \in BOOLEAN : Update(busy)
    \/ Stop

Spec == Init /\ [][Next]_vars

(***************************************************************************)
(* Vocabulary of the properties.                                           *)
(***************************************************************************)
\* convert has returned its text.
Returned == ret # <<>>

\* generate_code has come to its end on a selected file.
Finished == pc = "done" /\ json_path # ""

Complete(p) == Has(p, "x") /\ Has(p, "y")

\* Every Point of the document has x and y.
DocComplete ==
    /\ Complete(file.startPoint)
    /\ \A k \in 1..Len(lines) :
          /\ Complete(lines[k].endPoint)
          /\ \A m \in 1..Len(lines[k].controlPoints) : Complete(lines[k].controlPoints[m])

\* Some segment has neither 0 nor 1 control points.
HasUnsupportedShape == \E k \in 1..Len(lines) : Len(lines[k].controlPoints) \notin {0, 1}

IsBlank(s) == \A k \in 1..Len(s) : s[k] = " "

HeadingIsConstant(ep) == Has(ep, "heading") /\ ep["heading"] = "constant"

RECURSIVE CamelByChar(_, _)
\* The identifier read off the name character by character: separators are
\* dropped, a character right after a separator is upper-cased, every other
\* character is lower-cased.
CamelByChar(s, k) ==
    IF k > Len(s) THEN <<>>
    ELSE IF IsSep(s[k]) THEN CamelByChar(s, k + 1)
    ELSE <<IF k > 1 /\ IsSep(s[k - 1]) THEN UpperChar(s[k]) ELSE LowerChar(s[k])>>
         \o CamelByChar(s, k + 1)

DigitVal(c) == CHOOSE d \in 0..9 : DigitChars[d + 1] = c

IsDigit(c) == \E d \in 0..9 : DigitChars[d + 1] = c

RECURSIVE NatOf(_)
NatOf(s) == IF Len(s) = 0 THEN 0 ELSE NatOf(SubSeq(s, 1, Len(s) - 1)) * 10 + DigitVal(s[Len(s)])

PointAt(s) == IF \E k \in 1..Len(s) : s[k] = "." THEN CHOOSE k \in 1..Len(s) : s[k] = "." ELSE 0

\* The digits after the decimal point.
FracDigits(s) == IF PointAt(s) = 0 THEN <<>> ELSE SubSeq(s, PointAt(s) + 1, Len(s))

\* The digits before the decimal point, without the sign.
WholeDigits(s) ==
    LET from == IF Len(s) > 0 /\ s[1] = "-" THEN 2 ELSE 1
        to == IF PointAt(s) = 0 THEN Len(s) ELSE PointAt(s) - 1
    IN  SubSeq(s, from, to)

\* s is a decimal numeral: an optional sign, digits, and optionally a point
\* followed by digits.
IsNumeral(s) ==
    /\ Len(WholeDigits(s)) > 0
    /\ \A k \in 1..Len(WholeDigits(s)) : IsDigit(WholeDigits(s)[k])
    /\ \A k \in 1..Len(FracDigits(s)) : IsDigit(FracDigits(s)[k])

\* The magnitude of a numeral of at most three fractional digits, in thousandths.
ThousandthsOf(s) ==
    LET fd == FracDigits(s)
        scale == CASE Len(fd) = 0 -> 1000 [] Len(fd) = 1 -> 100 [] Len(fd) = 2 -> 10 [] OTHER -> 1
    IN  NatOf(WholeDigits(s)) * 1000 + NatOf(fd) * scale

\* s renders number v canonically: v rounded to the nearest thousandth, at most
\* three fractional digits, no trailing zero after the point, no trailing point.
Canonical(v, s) ==
    /\ IsNumeral(s)
    /\ Len(FracDigits(s)) <= 3
    /\ s[Len(s)] # "."
    /\ PointAt(s) # 0 => s[Len(s)] # "0"
    /\ (s[1] = "-") = (v.n < 0)
    /\ LET d == ThousandthsOf(s) * 10 - Abs(v.n) IN -5 <= d /\ d <= 5
    /\ v.n % 10000 = 0 => s = (IF v.n < 0 THEN <<"-">> ELSE <<>>) \o Digits(Abs(v.n) \div 10000)

\* The end heading as the data model gives it: degrees, else endDeg, else 0.
ClaimedDegrees(ep) ==
    IF Has(ep, "degrees") THEN ep["degrees"]
    ELSE IF Has(ep, "endDeg") THEN ep["endDeg"]
    ELSE NumV(0, FALSE)

\* Every numeric field of the returned text, paired with the number it renders.
NumericFields(code) ==
    {<<file.startPoint["x"], code.start_pose_line.x>>,
     <<file.startPoint["y"], code.start_pose_line.y>>,
     <<Get(file.startPoint, "startDeg", NumV(0, FALSE)), code.start_pose_line.heading>>}
    \cup UNION {{<<lines[k].endPoint["x"], code.poses[k].x>>,
                 <<lines[k].endPoint["y"], code.poses[k].y>>,
                 <<ClaimedDegrees(lines[k].endPoint), code.poses[k].heading>>} :
                k \in 1..Len(lines)}
    \cup UNION {{<<lines[k].controlPoints[1]["x"], code.build_lines[k].control[1]>>,
                 <<lines[k].controlPoints[1]["y"], code.build_lines[k].control[2]>>} :
                k \in {m \in 1..Len(lines) : Len(lines[m].controlPoints) > 0}}

(***************************************************************************)
(* The claims.                                                             *)
(***************************************************************************)
\* C1: for a document of k segments whose Points are complete, convert returns,
\* and the text it returns has exactly k+1 switch cases labelled 0, 1, ..., k in
\* that order; case j (j < k) follows the path constructed for the j-th segment
\* of the input, whose pose is annotated with that segment's name, and case k
\* is the terminal case, which follows nothing.
C1_CasesInOrder ==
    /\ (Finished /\ DocComplete) => Returned
    /\ Returned =>
          LET code == ret[1]
              cases == code.update_state_machine
              n == Len(lines)
          IN  /\ Len(cases) = n + 1
              /\ Len(code.poses) = n
              /\ Len(code.build_lines) = n
              /\ \A k \in 1..(n + 1) : cases[k].label = k - 1
              /\ \A k \in 1..n :
                    /\ cases[k].kind # "done"
                    /\ cases[k].next = k
                    /\ cases[k].follow = code.build_lines[k].path
                    /\ cases[k].follow = code.path_vars[k]
                    /\ code.build_lines[k].end = code.poses[k].name
                    /\ code.poses[k].comment = lines[k].name
              /\ cases[n + 1].kind = "done"
              /\ cases[n + 1].follow = <<>>

C1_Witness == Returned /\ Len(lines) = 3 /\ lines[1].name # lines[2].name

\* C2: in the run of the emitted state machine for N segments, pathState stays
\* within 0..N and equals the number of paths started, which are the paths of
\* segments 0, 1, ... in order; an update in state 0 starts segment 0 and moves
\* to state 1 whether or not the follower is busy; an update in a state i with
\* 1 <= i <= N-1 starts segment i and moves to i+1 when the follower is not
\* busy and changes nothing when it is; state N is never left; no step lowers
\* pathState or raises it by more than one.
C2_RunInv ==
    runPc # "init" =>
        /\ pathState \in 0..Len(lines)
        /\ Len(followed) = pathState
        /\ \A k \in 1..Len(followed) : followed[k] = text_output[1].build_lines[k].path

C2_RunStep ==
    runPc = "loop" =>
        /\ pathState' \in {pathState, pathState + 1}
        /\ pathState = Len(lines) => (pathState' = pathState /\ followed' = followed)
        /\ (pathState = 0 /\ Len(lines) > 0 /\ (Update(TRUE) \/ Update(FALSE))) =>
              (pathState' = 1 /\ followed' = <<text_output[1].build_lines[1].path>>)
        /\ (pathState >= 1 /\ pathState < Len(lines) /\ Update(FALSE)) =>
              /\ pathState' = pathState + 1
              /\ followed' = Append(followed, text_output[1].build_lines[pathState + 1].path)
        /\ (pathState >= 1 /\ Update(TRUE)) => UNCHANGED <<pathState, followed>>
        /\ (pathState >= 1 /\ pathState' # pathState) => Update(FALSE)

C2_SequentialRun == []C2_RunInv /\ [][C2_RunStep]_vars

C2_Witness == runPc = "loop" /\ Len(lines) = 4 /\ pathState = 4 /\ Len(followed) = 4

\* C3: the construction statement of segment 0 starts from startPose, and that
\* of every later segment starts from the end pose of the statement before it,
\* which is the pose declared for the segment before it; at every point of the
\* build loop and in the returned text.
C3_Chaining ==
    /\ \A k \in 1..Len(build_lines) :
          /\ k = 1 => build_lines[k].start = start_pose_name
          /\ k > 1 => /\ build_lines[k].start = build_lines[k - 1].end
                      /\ build_lines[k].start = poses[k - 1].name
    /\ Returned => ret[1].build_lines = build_lines /\ ret[1].poses = poses

C3_Witness ==
    /\ Returned
    /\ Len(lines) = 2
    /\ Len(lines[1].controlPoints) = 1
    /\ Len(lines[2].controlPoints) = 0
    /\ HeadingIsConstant(lines[1].endPoint)
    /\ ~Has(lines[2].endPoint, "heading")
    /\ lines[1].name # lines[2].name

\* C4 (as claimed): a document with a segment of neither 0 nor 1 control points
\* gets no text, and its conversion, when nothing else is wrong with the
\* document, ends with an UnsupportedShapeError.
C4_ShapeRejected ==
    HasUnsupportedShape =>
        /\ ~Returned
        /\ text_output = <<>>
        /\ (Finished /\ DocComplete) => exc = "UnsupportedShapeError"

\* C5 (as claimed): the identifier derived from a non-empty name is non-empty,
\* and a document with an empty or whitespace-only name gets no text, its
\* conversion, when nothing else is wrong with the document, ending with a
\* MalformedInputError.
C5_IdentifierTotal ==
    /\ \A k \in 1..Len(poses) :
          lines[k].name # <<>> => Len(poses[k].name) > Len(PoseSuffix)
    /\ (\E k \in 1..Len(lines) : IsBlank(lines[k].name)) =>
          /\ ~Returned
          /\ (Finished /\ DocComplete) => exc = "MalformedInputError"

\* C6 (as claimed): a document with a Point lacking x or y gets no text at all
\* and an error; and a returned text is the full text, with every segment's
\* pose, construction statement and case.
C6_NoPartialOutput ==
    /\ ~DocComplete =>
          /\ ~Returned
          /\ text_output = <<>>
          /\ Finished => exc # ""
    /\ Returned =>
          /\ Len(ret[1].poses) = Len(lines)
          /\ Len(ret[1].build_lines) = Len(lines)
          /\ Len(ret[1].update_state_machine) = Len(lines) + 1

\* C7: a construction statement has the constant-heading directive, on the
\* segment's end pose, exactly when the end point's heading field is "constant";
\* otherwise (any other value, or no heading field) it has the linear-heading
\* directive with the previous pose and the segment's end pose, in that order.
C7_HeadingMode ==
    /\ Returned => ret[1].build_lines = build_lines
    /\ \A k \in 1..Len(build_lines) :
          LET b == build_lines[k]
          IN  IF HeadingIsConstant(lines[k].endPoint)
              THEN /\ b.interp = "setConstantHeadingInterpolation"
                   /\ b.args = <<poses[k].name>>
              ELSE /\ b.interp = "setLinearHeadingInterpolation"
                   /\ b.args = <<IF k = 1 THEN start_pose_name ELSE poses[k - 1].name,
                                 poses[k].name>>

C7_Witness ==
    /\ Returned
    /\ Len(lines) = 2
    /\ ~Has(lines[1].endPoint, "heading")
    /\ Has(lines[2].endPoint, "heading")
    /\ lines[2].endPoint["heading"] = "tangential"
    /\ lines[1].name # lines[2].name
    /\ ret[1].build_lines[2].args = <<NameGo \o PoseSuffix, <<"a", "B">> \o PoseSuffix>>

\* C8: the heading of a segment's pose declaration renders degrees when the end
\* point has degrees (also when it has endDeg too), else endDeg when it has
\* endDeg, else 0; the start pose's heading renders startDeg when the start
\* point has it, else 0.
C8_HeadingResolution ==
    /\ \A k \in 1..Len(poses) : poses[k].heading = f(ClaimedDegrees(lines[k].endPoint))
    /\ \A k \in 1..Len(start_pose_line) :
          start_pose_line[k].heading =
              f(IF Has(file.startPoint, "startDeg") THEN file.startPoint["startDeg"]
                ELSE NumV(0, FALSE))
    /\ Returned => ret[1].poses = poses /\ ret[1].start_pose_line = start_pose_line[1]

C8_Witness ==
    /\ Returned
    /\ Len(lines) = 2
    /\ DOMAIN lines[1].endPoint = {"x", "y", "degrees", "endDeg"}
    /\ DOMAIN lines[2].endPoint = {"x", "y", "endDeg"}
    /\ ~Has(file.startPoint, "startDeg")
    /\ ret[1].poses[1].heading = <<"9", "0">>
    /\ ret[1].poses[2].heading = <<"-", "1", "8", "0">>

\* C9: every numeric field of the returned text (start and end pose x, y and
\* heading, control point x and y) renders its number canonically: rounded to
\* the nearest thousandth, with at most three fractional digits, no trailing
\* zero after the point and no trailing point, a whole number as its integer
\* digits.
C9_CanonicalNumbers ==
    Returned => \A p \in NumericFields(ret[1]) : p[1].kind = "num" => Canonical(p[1], p[2])

C9_Witness ==
    /\ Returned
    /\ file.startPoint["x"] = NumV(123456, FALSE)
    /\ ret[1].start_pose_line.x = <<"1", "2", ".", "3", "4", "6">>

\* C10: the identifier derived from a name is the name without its underscores
\* and whitespace, lower-cased except for the first character of every token
\* after the first, which is upper-cased; a name of a single token gives its
\* lower-casing; no identifier holds an underscore or a whitespace character.
C10_CamelCase ==
    \A k \in 1..Len(path_names) :
        LET name == lines[k].name
            id == SubSeq(path_names[k], 1, Len(path_names[k]) - Len(PathSuffix))
        IN  /\ path_names[k] = id \o PathSuffix
            /\ poses[k].name = id \o PoseSuffix
            /\ id = CamelByChar(name, 1)
            /\ \A m \in 1..Len(id) : ~IsSep(id[m])
            /\ (\A m \in 1..Len(name) : ~IsSep(name[m])) => id = Lower(name)

C10_Witness ==
    /\ Returned
    /\ Len(lines) = 1
    /\ lines[1].name = <<"B", "_", "a", "B">>
    /\ path_names[1] = <<"b", "A", "b">> \o PathSuffix

=============================================================================
